---- MODULE Spec2Model ----
(***************************************************************************)
(* A model of the nobloat blog generator (src/main.go): the inline         *)
(* formatter, the line-oriented block parser and the post loader.          *)
(*                                                                         *)
(* Text is a sequence of pieces.  A piece is either one character of the  *)
(* source text (a one-character string) or one literal the generator      *)
(* writes (a tag such as "<ul>", or an entity such as "&lt;").  The        *)
(* string the program holds is the concatenation of the pieces.           *)
(***************************************************************************)
EXTENDS Integers, Sequences, FiniteSets, TLC

VARIABLES
    \* formatInline: the local text, reassigned by each pass
    itext, text, ipc,
    \* parseMarkdown: its parameter, locals and results
    input, lines, li, out, exc, inList, inCode, codeLang,
    firstParagraphCaptured, title, kinds, ppc,
    \* loadPosts: the directory listing and its locals
    files, fi, posts, warnings, lpc,
    \* sanitizeAnchor: its parameter, the builder out and the loop position
    ainput, anchor, ai, apc,
    \* the file system: can articles/ be listed, can public/ be written, can
    \* index.html and article.html be read; the listing of articles/; the
    \* files of public/
    dirOK, outOK, idxOK, artOK, articles, public,
    \* the program as built: the order sort.Slice gives to equal elements
    tieRule,
    \* main and buildSite: their positions, the posts of the build at hand,
    \* the listing it read, the builds begun, the "Build complete." lines
    \* printed, the builds inside buildSite, and the exit status
    mpc, bpc, bposts, bfiles, builds, completed, active, exit,
    \* watchFiles: the events and the errors the watcher has not handed over
    \* yet, the number it may still produce, the events received, and whether
    \* its channels are open
    pending, perrs, budget, received, chanOpen,
    \* what the last two completed builds read and produced
    last, prev,
    \* the paths the builds have created or written to
    written

ivars == <<itext, text, ipc>>
pvars == <<input, lines, li, out, exc, inList, inCode, codeLang,
           firstParagraphCaptured, title, kinds, ppc>>
lvars == <<files, fi, posts, warnings, lpc>>
avars == <<ainput, anchor, ai, apc>>
evars == <<dirOK, outOK, idxOK, artOK, articles, public, tieRule>>
bvars == <<mpc, bpc, bposts, bfiles, builds, completed, active, exit>>
wvars == <<pending, perrs, budget, received, chanOpen>>
hvars == <<last, prev, written>>
xvars == <<avars, evars, bvars, wvars, hvars>>
vars == <<ivars, pvars, lvars, xvars>>

----------------------------------------------------------------------------
(* Bounds of the checked inputs. *)

MaxFrags == 3

MaxLines == 3

MaxFiles == 3

MaxAnchor == 3

MaxEvents == 2

----------------------------------------------------------------------------
(* Generic sequence helpers. *)

Min(S) == CHOOSE x \in S : \A y \in S : x <= y

\* The smallest index j >= i of s that holds the character c, or 0 when there
\* is none.
FirstFrom(s, i, c) ==
    LET S == {j \in i..Len(s) : s[j] = c} IN IF S = {} THEN 0 ELSE Min(S)

RECURSIVE Flatten(_)
Flatten(ss) == IF ss = <<>> THEN <<>> ELSE Head(ss) \o Flatten(Tail(ss))

SeqsUpTo(S, n) == UNION {[1..k -> S] : k \in 0..n}

\* strings.HasPrefix / strings.TrimPrefix / strings.HasSuffix / strings.TrimSuffix
HasPrefix(s, p) == Len(s) >= Len(p) /\ SubSeq(s, 1, Len(p)) = p

TrimPrefix(s, p) == IF HasPrefix(s, p) THEN SubSeq(s, Len(p) + 1, Len(s)) ELSE s

HasSuffix(s, p) == Len(s) >= Len(p) /\ SubSeq(s, Len(s) - Len(p) + 1, Len(s)) = p

TrimSuffix(s, p) == IF HasSuffix(s, p) THEN SubSeq(s, 1, Len(s) - Len(p)) ELSE s

\* unicode.IsSpace on the characters the inputs use
IsSpace(c) == c \in {" ", "\t", "\n", "\r"}

\* strings.TrimSpace: drop leading and trailing white space
TrimSpace(s) ==
    LET keep == {j \in 1..Len(s) : ~IsSpace(s[j])}
    IN  IF keep = {} THEN <<>>
        ELSE SubSeq(s, Min(keep), CHOOSE j \in keep : \A k \in keep : k <= j)

----------------------------------------------------------------------------
(* html.EscapeString: the five characters it replaces, each by its entity. *)

Special == {"&", "<", ">", "\"", "'"}

Entity(c) ==
    CASE c = "&" -> "&amp;"
      [] c = "<" -> "&lt;"
      [] c = ">" -> "&gt;"
      [] c = "\"" -> "&#34;"
      [] c = "'" -> "&#39;"
      [] OTHER -> c

\* An escaper that leaves the two quote characters as they are
EscapeStringNoQuotes(s) ==
    [j \in 1..Len(s) |-> IF s[j] \in {"\"", "'"} THEN s[j] ELSE Entity(s[j])]

EscapeString(s) == [j \in 1..Len(s) |-> Entity(s[j])]

----------------------------------------------------------------------------
(* The six regular expressions of formatInline, each with its              *)
(* ReplaceAllString.  A match is sought at the leftmost position; after a  *)
(* match the scan goes on behind it (non-overlapping matches).             *)

\* The backtick character (a TLA+ string cannot hold one)
BT == "BACKTICK"

\* The dot of RE2 matches every character but a newline
NoNewline(s, a, b) == \A j \in a..b : s[j] # "\n"

\* imageRe / linkRe from the "[" at position b: the index of the closing ")"
\* of the bracketed label and the parenthesised target, or 0 when there is no
\* match.  The label runs to the first "]" and the target, which is not
\* empty, to the first ")".
BracketEnd(s, b) ==
    IF b > Len(s) \/ s[b] # "[" THEN 0
    ELSE LET c == FirstFrom(s, b + 1, "]")
         IN  IF c = 0 \/ c + 1 > Len(s) \/ s[c + 1] # "(" THEN 0
             ELSE LET p == FirstFrom(s, c + 2, ")")
                  IN  IF p = 0 \/ p < c + 3 THEN 0 ELSE p

BracketAlt(s, b) == SubSeq(s, b + 1, FirstFrom(s, b + 1, "]") - 1)

BracketURL(s, b) ==
    SubSeq(s, FirstFrom(s, b + 1, "]") + 2, BracketEnd(s, b) - 1)

Figure(alt, url) ==
    <<"<figure>", "<img src=\"">> \o url \o <<"\" alt=\"">> \o alt \o <<"\">">>
    \o <<"<figcaption>">> \o alt \o <<"</figcaption>", "</figure>">>

Anchor(label, url) == <<"<a href=\"">> \o url \o <<"\">">> \o label \o <<"</a>">>

RECURSIVE ImageFrom(_, _)
ImageFrom(s, i) ==
    IF i > Len(s) THEN <<>>
    ELSE IF s[i] = "!" /\ BracketEnd(s, i + 1) # 0
         THEN Figure(BracketAlt(s, i + 1), BracketURL(s, i + 1))
              \o ImageFrom(s, BracketEnd(s, i + 1) + 1)
         ELSE <<s[i]>> \o ImageFrom(s, i + 1)

ReplaceImage(s) == ImageFrom(s, 1)

RECURSIVE LinkFrom(_, _)
LinkFrom(s, i) ==
    IF i > Len(s) THEN <<>>
    ELSE IF BracketEnd(s, i) # 0
         THEN Anchor(BracketAlt(s, i), BracketURL(s, i))
              \o LinkFrom(s, BracketEnd(s, i) + 1)
         ELSE <<s[i]>> \o LinkFrom(s, i + 1)

ReplaceLink(s) == LinkFrom(s, 1)

\* codeRe from position i: the index of the closing backtick, or 0.  Between
\* the backticks stands at least one character, none a backtick or newline.
CodeEnd(s, i) ==
    IF s[i] # BT THEN 0
    ELSE LET j == FirstFrom(s, i + 1, BT)
         IN  IF j = 0 \/ j < i + 2 \/ ~NoNewline(s, i + 1, j - 1) THEN 0 ELSE j

RECURSIVE CodeFrom(_, _)
CodeFrom(s, i) ==
    IF i > Len(s) THEN <<>>
    ELSE IF CodeEnd(s, i) # 0
         THEN <<"<code>">> \o SubSeq(s, i + 1, CodeEnd(s, i) - 1) \o <<"</code>">>
              \o CodeFrom(s, CodeEnd(s, i) + 1)
         ELSE <<s[i]>> \o CodeFrom(s, i + 1)

ReplaceCode(s) == CodeFrom(s, 1)

\* boldRe and strikeRe from position i, m the marker character (doubled):
\* the index of the first character of the closing pair, or 0.
\* The group is not greedy: the nearest closing pair behind one character.
PairClose(s, i, m) ==
    IF i + 1 > Len(s) \/ s[i] # m \/ s[i + 1] # m THEN 0
    ELSE LET S == {j \in (i + 3)..(Len(s) - 1) : s[j] = m /\ s[j + 1] = m}
             k == IF S = {} THEN 0 ELSE Min(S)
         IN  IF k = 0 \/ ~NoNewline(s, i + 2, k - 1) THEN 0 ELSE k

RECURSIVE PairFrom(_, _, _, _, _)
PairFrom(s, i, m, open, close) ==
    IF i > Len(s) THEN <<>>
    ELSE IF PairClose(s, i, m) # 0
         THEN <<open>> \o SubSeq(s, i + 2, PairClose(s, i, m) - 1) \o <<close>>
              \o PairFrom(s, PairClose(s, i, m) + 2, m, open, close)
         ELSE <<s[i]>> \o PairFrom(s, i + 1, m, open, close)

ReplaceBold(s) == PairFrom(s, 1, "*", "<strong>", "</strong>")

ReplaceStrike(s) == PairFrom(s, 1, "~", "<del>", "</del>")

\* italicRe from position i: the index of the closing star, or 0
ItalicClose(s, i) ==
    IF s[i] # "*" THEN 0
    ELSE LET k == FirstFrom(s, i + 2, "*")
         IN  IF k = 0 \/ ~NoNewline(s, i + 1, k - 1) THEN 0 ELSE k

RECURSIVE ItalicFrom(_, _)
ItalicFrom(s, i) ==
    IF i > Len(s) THEN <<>>
    ELSE IF ItalicClose(s, i) # 0
         THEN <<"<em>">> \o SubSeq(s, i + 1, ItalicClose(s, i) - 1) \o <<"</em>">>
              \o ItalicFrom(s, ItalicClose(s, i) + 1)
         ELSE <<s[i]>> \o ItalicFrom(s, i + 1)

ReplaceItalic(s) == ItalicFrom(s, 1)

\* The k-th assignment to text in formatInline (lines 173-179)
\* A formatter that runs the italic rule where the bold rule belongs
PassItalicBeforeBold(k, s) ==
    CASE k = 1 -> EscapeString(s)
      [] k = 2 -> ReplaceImage(s)
      [] k = 3 -> ReplaceLink(s)
      [] k = 4 -> ReplaceCode(s)
      [] k = 5 -> ReplaceItalic(s)
      [] k = 6 -> ReplaceStrike(s)
      [] k = 7 -> ReplaceBold(s)

\* lines 173-179: the k-th assignment of formatInline
Pass(k, s) ==
    CASE k = 1 -> EscapeString(s)
      [] k = 2 -> ReplaceImage(s)
      [] k = 3 -> ReplaceLink(s)
      [] k = 4 -> ReplaceCode(s)
      [] k = 5 -> ReplaceBold(s)
      [] k = 6 -> ReplaceStrike(s)
      [] k = 7 -> ReplaceItalic(s)

\* text after the first k assignments.  The result of the pass before is
\* bound to t before the next pass reads it, so it is computed once.
RECURSIVE TextAfter(_, _)
TextAfter(k, s) ==
    IF k = 0 THEN s
    ELSE CHOOSE r \in {Pass(k, t) : t \in {TextAfter(k - 1, s)}} : TRUE

\* formatInline: the seven passes, each on the result of the one before
formatInline(s) == TextAfter(7, s)

----------------------------------------------------------------------------
(* sanitizeAnchor: a character-by-character map, then strings.ToLower. *)

UpperLetters == <<"A", "B", "C", "D", "E", "F", "G", "H", "I", "J", "K", "L", "M",
                  "N", "O", "P", "Q", "R", "S", "T", "U", "V", "W", "X", "Y", "Z">>

LowerLetters == <<"a", "b", "c", "d", "e", "f", "g", "h", "i", "j", "k", "l", "m",
                  "n", "o", "p", "q", "r", "s", "t", "u", "v", "w", "x", "y", "z">>

Digits == <<"0", "1", "2", "3", "4", "5", "6", "7", "8", "9">>

Range(f) == {f[x] : x \in DOMAIN f}

IsLetter(c) == c \in Range(UpperLetters) \cup Range(LowerLetters)

IsDigit(c) == c \in Range(Digits)

ToLowerRune(c) ==
    IF c \in Range(UpperLetters)
    THEN LowerLetters[CHOOSE k \in DOMAIN UpperLetters : UpperLetters[k] = c]
    ELSE c

ToLower(s) == [j \in 1..Len(s) |-> ToLowerRune(s[j])]

\* A map that lets white space through
SanitizeRuneKeepsSpace(r) ==
    IF IsLetter(r) \/ IsDigit(r) THEN r
    ELSE IF r \in {"-", "_", ".", "~", " "} THEN r
    ELSE "-"

SanitizeRune(r) ==
    IF IsLetter(r) \/ IsDigit(r) THEN r
    ELSE IF r \in {"-", "_", ".", "~"} THEN r
    ELSE "-"

sanitizeAnchor(s) == ToLower([j \in 1..Len(s) |-> SanitizeRune(s[j])])

----------------------------------------------------------------------------
(* parseMarkdown.  The parser's locals are held in a record while one line *)
(* is processed: out, exc, inList, inCode, codeLang and                    *)
(* firstParagraphCaptured, and kind, the rule that handled the line.       *)

\* strings.Split(input, "\n"): the text between one newline (or the start)
\* and the next (or the end); always at least one element
Split(s) ==
    LET cuts == {0} \cup {j \in 1..Len(s) : s[j] = "\n"} \cup {Len(s) + 1}
        Cut(k) == CHOOSE c \in cuts : Cardinality({d \in cuts : d < c}) = k
    IN  [k \in 1..(Cardinality(cuts) - 1) |-> SubSeq(s, Cut(k - 1) + 1, Cut(k) - 1)]

Fence == <<BT, BT, BT>>

ListClose == <<"</ul>", "\n">>

CodeClose == <<"</code>", "</pre>", "\n", "</div>", "\n">>

WrapperOpen ==
    << "<div class=\"code-block-wrapper\">", "\n",
       "<button class=\"copy-button\" onclick=\"copyCode(this)\" aria-label=\"Copy code\">",
       "Copy", "</button>", "\n" >>

CodeOpen(lang) ==
    IF lang = <<>> THEN <<"<pre>", "<code>">>
    ELSE <<"<pre>", "<code class=\"language-">> \o lang \o <<"\">">>

\* A parser that writes the list-close tag and forgets to clear inList
CloseListKeepsFlag(st) ==
    IF st.inList THEN [st EXCEPT !.out = @ \o ListClose] ELSE st

\* the `if inList { ... }` that opens the cases of the switch
CloseList(st) ==
    IF st.inList THEN [st EXCEPT !.out = @ \o ListClose, !.inList = FALSE] ELSE st

\* A parser that closes a code block only on a line of three backticks alone
FenceLineBareClose(st, line) ==
    IF st.inCode
    THEN IF line = Fence
         THEN [st EXCEPT !.out = @ \o CodeClose, !.inCode = FALSE, !.kind = "fenceClose"]
         ELSE [st EXCEPT !.out = @ \o EscapeString(line) \o <<"\n">>, !.kind = "code"]
    ELSE LET lang == TrimSpace(TrimPrefix(line, Fence))
         IN  [st EXCEPT !.inCode = TRUE, !.codeLang = lang,
                        !.out = @ \o WrapperOpen \o CodeOpen(lang),
                        !.kind = "fenceOpen"]

\* lines 198-213: a fence line
FenceLine(st, line) ==
    IF st.inCode
    THEN [st EXCEPT !.out = @ \o CodeClose, !.inCode = FALSE, !.kind = "fenceClose"]
    ELSE LET lang == TrimSpace(TrimPrefix(line, Fence))
         IN  [st EXCEPT !.inCode = TRUE, !.codeLang = lang,
                        !.out = @ \o WrapperOpen \o CodeOpen(lang),
                        !.kind = "fenceOpen"]

\* lines 214-217: a line inside a code block
CodeLine(st, raw) ==
    [st EXCEPT !.out = @ \o EscapeString(raw) \o <<"\n">>, !.kind = "code"]

\* lines 218-222: a blank line that ends a list
ListBlankLine(st) ==
    [st EXCEPT !.out = @ \o ListClose, !.inList = FALSE, !.kind = "listBlank"]

QuoteLine(st, line) ==
    LET c == CloseList(st)
    IN  [c EXCEPT !.out = @ \o <<"<blockquote>", "<p>">>
                        \o formatInline(TrimPrefix(line, <<">", " ">>))
                        \o <<"</p>", "</blockquote>", "\n">>,
                  !.kind = "quote"]

H1Line(st, line) ==
    LET c == CloseList(st)
    IN  [c EXCEPT !.out = @ \o <<"<h1>">> \o formatInline(TrimPrefix(line, <<"#", " ">>))
                        \o <<"</h1>", "\n">>,
                  !.kind = "h1"]

\* A parser whose self-link holds the heading text only lowered
H2LinePlainFragment(st, line) ==
    LET c == CloseList(st)
        id == sanitizeAnchor(TrimPrefix(line, <<"#", "#", " ">>))
        frag == ToLower(TrimPrefix(line, <<"#", "#", " ">>))
    IN  [c EXCEPT !.out = @ \o <<"<h2 id=\"">> \o id \o <<"\">", "<a href=\"#">> \o frag
                        \o <<"\">">> \o formatInline(TrimPrefix(line, <<"#", "#", " ">>))
                        \o <<"</a>", "</h2>", "\n">>,
                  !.kind = "h2"]

\* lines 237-243: a level-2 heading
H2Line(st, line) ==
    LET c == CloseList(st)
        id == sanitizeAnchor(TrimPrefix(line, <<"#", "#", " ">>))
    IN  [c EXCEPT !.out = @ \o <<"<h2 id=\"">> \o id \o <<"\">", "<a href=\"#">> \o id
                        \o <<"\">">> \o formatInline(TrimPrefix(line, <<"#", "#", " ">>))
                        \o <<"</a>", "</h2>", "\n">>,
                  !.kind = "h2"]

H3Line(st, line) ==
    LET c == CloseList(st)
    IN  [c EXCEPT !.out = @ \o <<"<h3>">>
                        \o formatInline(TrimPrefix(line, <<"#", "#", "#", " ">>))
                        \o <<"</h3>", "\n">>,
                  !.kind = "h3"]

\* A parser that opens a list for every item
ItemLineAlwaysOpens(st, line) ==
    LET o == [st EXCEPT !.out = @ \o <<"<ul>", "\n">>, !.inList = TRUE]
    IN  [o EXCEPT !.out = @ \o <<"<li>">> \o formatInline(TrimPrefix(line, <<"-", " ">>))
                        \o <<"</li>", "\n">>,
                  !.kind = "item"]

\* lines 250-255: a list item
ItemLine(st, line) ==
    LET o == IF ~st.inList
             THEN [st EXCEPT !.out = @ \o <<"<ul>", "\n">>, !.inList = TRUE]
             ELSE st
    IN  [o EXCEPT !.out = @ \o <<"<li>">> \o formatInline(TrimPrefix(line, <<"-", " ">>))
                        \o <<"</li>", "\n">>,
                  !.kind = "item"]

BlankLine(st) == [CloseList(st) EXCEPT !.kind = "blank"]

\* A parser without the one-shot flag: every paragraph is captured
ParagraphEveryTime(c, paragraph) ==
    [c EXCEPT !.out = @ \o <<"<p>">> \o paragraph \o <<"</p>", "\n">>,
              !.exc = @ \o paragraph,
              !.firstParagraphCaptured = TRUE,
              !.kind = "para"]

\* lines 267-271: the paragraph is written, and captured if it is the first
Paragraph(c, paragraph) ==
    [c EXCEPT !.out = @ \o <<"<p>">> \o paragraph \o <<"</p>", "\n">>,
              !.exc = IF ~c.firstParagraphCaptured THEN @ \o paragraph ELSE @,
              !.firstParagraphCaptured = TRUE,
              !.kind = "para"]

\* lines 261-271: the default case, a paragraph
ParagraphLine(st, line) == Paragraph(CloseList(st), formatInline(line))

\* A parser that ends a list on a blank line before it looks at inCode
DispatchListFirst(st, raw, line) ==
    IF HasPrefix(line, Fence) THEN FenceLine(st, line)
    ELSE IF st.inList /\ line = <<>> THEN ListBlankLine(st)
    ELSE IF st.inCode THEN CodeLine(st, raw)
    ELSE IF HasPrefix(line, <<">", " ">>) THEN QuoteLine(st, line)
    ELSE IF HasPrefix(line, <<"#", " ">>) THEN H1Line(st, line)
    ELSE IF HasPrefix(line, <<"#", "#", " ">>) THEN H2Line(st, line)
    ELSE IF HasPrefix(line, <<"#", "#", "#", " ">>) THEN H3Line(st, line)
    ELSE IF HasPrefix(line, <<"-", " ">>) THEN ItemLine(st, line)
    ELSE IF line = <<>> THEN BlankLine(st)
    ELSE ParagraphLine(st, line)

\* lines 198-272: the rule that handles raw, line being raw trimmed
Dispatch(st, raw, line) ==
    IF HasPrefix(line, Fence) THEN FenceLine(st, line)
    ELSE IF st.inCode THEN CodeLine(st, raw)
    ELSE IF st.inList /\ line = <<>> THEN ListBlankLine(st)
    ELSE IF HasPrefix(line, <<">", " ">>) THEN QuoteLine(st, line)
    ELSE IF HasPrefix(line, <<"#", " ">>) THEN H1Line(st, line)
    ELSE IF HasPrefix(line, <<"#", "#", " ">>) THEN H2Line(st, line)
    ELSE IF HasPrefix(line, <<"#", "#", "#", " ">>) THEN H3Line(st, line)
    ELSE IF HasPrefix(line, <<"-", " ">>) THEN ItemLine(st, line)
    ELSE IF line = <<>> THEN BlankLine(st)
    ELSE ParagraphLine(st, line)

\* lines 195-273: the body of the loop, for one element of lines
ParseLine(st, raw) == Dispatch(st, raw, TrimSpace(raw))

\* lines 191-193: the title, read from the first line as it stands
ExtractTitle(ls) ==
    IF Len(ls) > 0 /\ HasPrefix(ls[1], <<"#", " ">>)
    THEN TrimPrefix(ls[1], <<"#", " ">>)
    ELSE <<>>

\* A cleanup that closes an open list but not an open code block
CleanupListOnly(st) ==
    IF st.inList THEN [st EXCEPT !.out = @ \o ListClose] ELSE st

\* lines 274-279: what is still open when the input ends
Cleanup(st) ==
    LET a == IF st.inList THEN [st EXCEPT !.out = @ \o ListClose] ELSE st
    IN  IF a.inCode THEN [a EXCEPT !.out = @ \o CodeClose] ELSE a

ParserStart ==
    [out |-> <<>>, exc |-> <<>>, inList |-> FALSE, inCode |-> FALSE,
     codeLang |-> <<>>, firstParagraphCaptured |-> FALSE, kind |-> "none"]

\* lines 195-273: the loop from element i on.  The locals after one line are
\* bound to nx before the next line reads them.
RECURSIVE ParseLines(_, _, _)
ParseLines(st, ls, i) ==
    IF i > Len(ls) THEN st
    ELSE CHOOSE r \in {ParseLines(nx, ls, i + 1) : nx \in {ParseLine(st, ls[i])}} : TRUE

\* line 280: the three results
Results(st, t) == [content |-> st.out, title |-> t, excerpt |-> st.exc]

ParseAll(ls) == Results(Cleanup(ParseLines(ParserStart, ls, 1)), ExtractTitle(ls))

\* parseMarkdown as a function of its input: (content, title, excerpt)
parseMarkdown(inp) == ParseAll(Split(inp))

----------------------------------------------------------------------------
(* formatInline as a process: one action per assignment to text. *)

InlineFragments ==
    { <<"<">>, <<">">>, <<"&">>, <<"\"">>, <<"'">>, <<"a">>,
      <<"*">>, <<"*", "*">>, <<"~", "~">>, <<BT>>,
      <<"!", "[", "a", "]", "(">>, <<"[", "a", "]", "(">>, <<")">> }

InlineInputs == {Flatten(fs) : fs \in SeqsUpTo(InlineFragments, MaxFrags)}

ParseIdle ==
    /\ input = <<>> /\ lines = <<>> /\ li = 0 /\ out = <<>> /\ exc = <<>>
    /\ inList = FALSE /\ inCode = FALSE /\ codeLang = <<>>
    /\ firstParagraphCaptured = FALSE /\ title = <<>> /\ kinds = <<>>
    /\ ppc = "idle"

LoadIdle ==
    /\ files = <<>> /\ fi = 0 /\ posts = <<>> /\ warnings = <<>> /\ lpc = "idle"

InlineIdle == itext = <<>> /\ text = <<>> /\ ipc = "idle"

AnchorIdle == ainput = <<>> /\ anchor = <<>> /\ ai = 0 /\ apc = "idle"

\* A file of public/ is the set of its contents: empty while it does not exist
NoFile == {}

NoPublic ==
    [style |-> NoFile, index |-> NoFile, pages |-> {}, sitemap |-> NoFile,
     feed |-> NoFile]

NoBuild == [files |-> <<>>, posts |-> <<>>, out |-> NoPublic]

BuildIdle ==
    /\ dirOK = TRUE /\ outOK = TRUE /\ idxOK = TRUE /\ artOK = TRUE
    /\ articles = <<>> /\ public = NoPublic /\ tieRule = "kept"
    /\ mpc = "idle" /\ bpc = "idle" /\ bposts = <<>> /\ bfiles = <<>>
    /\ builds = 0 /\ completed = 0 /\ active = 0 /\ exit = "none"
    /\ pending = 0 /\ perrs = 0 /\ budget = 0 /\ received = 0 /\ chanOpen = FALSE
    /\ last = NoBuild /\ prev = NoBuild /\ written = {}

\* the functions that are not called in the process at hand
ExtraIdle == AnchorIdle /\ BuildIdle

InitInline ==
    /\ itext \in InlineInputs
    /\ text = itext
    /\ ipc = "escape"
    /\ ParseIdle
    /\ LoadIdle
    /\ ExtraIdle

\* line 173
PassEscape ==
    /\ ipc = "escape"
    /\ text' = Pass(1, text)
    /\ ipc' = "image"
    /\ UNCHANGED <<itext, pvars, lvars, xvars>>

\* line 174
PassImage ==
    /\ ipc = "image"
    /\ text' = Pass(2, text)
    /\ ipc' = "link"
    /\ UNCHANGED <<itext, pvars, lvars, xvars>>

\* line 175
PassLink ==
    /\ ipc = "link"
    /\ text' = Pass(3, text)
    /\ ipc' = "code"
    /\ UNCHANGED <<itext, pvars, lvars, xvars>>

\* line 176
PassCode ==
    /\ ipc = "code"
    /\ text' = Pass(4, text)
    /\ ipc' = "bold"
    /\ UNCHANGED <<itext, pvars, lvars, xvars>>

\* line 177
PassBold ==
    /\ ipc = "bold"
    /\ text' = Pass(5, text)
    /\ ipc' = "strike"
    /\ UNCHANGED <<itext, pvars, lvars, xvars>>

\* line 178
PassStrike ==
    /\ ipc = "strike"
    /\ text' = Pass(6, text)
    /\ ipc' = "italic"
    /\ UNCHANGED <<itext, pvars, lvars, xvars>>

\* lines 179-180
PassItalic ==
    /\ ipc = "italic"
    /\ text' = Pass(7, text)
    /\ ipc' = "done"
    /\ UNCHANGED <<itext, pvars, lvars, xvars>>

NextInline ==
    \/ PassEscape
    \/ PassImage
    \/ PassLink
    \/ PassCode
    \/ PassBold
    \/ PassStrike
    \/ PassItalic

SpecInline == InitInline /\ [][NextInline]_vars

----------------------------------------------------------------------------
(* parseMarkdown as a process: the lines before the loop, one action per   *)
(* iteration of the loop, and the lines behind it.                         *)

ParseLineSet ==
    { <<"#", " ", "T">>,              \* a level-1 heading
      <<"#", " ", " ">>,              \* "# " and nothing but white space
      <<" ", "#", " ", "T">>,         \* an indented level-1 heading
      <<"#", "#", " ", "A", " ", "b">>,
      <<"#", "#", "#", " ", "x">>,
      <<"-", " ", "i">>,
      <<">", " ", "q">>,
      <<>>,
      <<BT, BT, BT>>,
      <<BT, BT, BT, "g", "o">>,
      <<" ", BT, BT, BT>>,            \* an indented fence
      <<BT, BT, BT, "\"", ">">>,      \* a fence with a quote and > behind it
      <<"p">>,
      <<"*", "b", "*">>,
      <<"<", "b", ">">> }

RECURSIVE Join(_)
Join(ls) ==
    IF Len(ls) = 1 THEN ls[1] ELSE ls[1] \o <<"\n">> \o Join(Tail(ls))

ParseInputs ==
    {Join(ls) : ls \in SeqsUpTo(ParseLineSet, MaxLines) \ {<<>>}}

\* line 183: parseMarkdown is entered with one of the texts of S
ParseEntry(S) ==
    /\ input \in S
    /\ lines = <<>> /\ li = 0 /\ out = <<>> /\ exc = <<>>
    /\ inList = FALSE /\ inCode = FALSE /\ codeLang = <<>>
    /\ firstParagraphCaptured = FALSE /\ title = <<>> /\ kinds = <<>>
    /\ ppc = "start"
    /\ InlineIdle
    /\ LoadIdle
    /\ ExtraIdle

InitParse == ParseEntry(ParseInputs)

\* lines 183-193: the lines before the loop
ParseBegin ==
    /\ ppc = "start"
    /\ lines' = Split(input)
    /\ title' = ExtractTitle(lines')
    /\ out' = ParserStart.out
    /\ exc' = ParserStart.exc
    /\ inList' = ParserStart.inList
    /\ inCode' = ParserStart.inCode
    /\ codeLang' = ParserStart.codeLang
    /\ firstParagraphCaptured' = ParserStart.firstParagraphCaptured
    /\ li' = 1
    /\ ppc' = "loop"
    /\ UNCHANGED <<input, kinds, ivars, lvars, xvars>>

Locals ==
    [out |-> out, exc |-> exc, inList |-> inList, inCode |-> inCode,
     codeLang |-> codeLang, firstParagraphCaptured |-> firstParagraphCaptured,
     kind |-> "none"]

\* lines 195-273: one iteration
ParseIterate ==
    /\ ppc = "loop"
    /\ li <= Len(lines)
    /\ \E st \in {ParseLine(Locals, lines[li])} :
           /\ out' = st.out
           /\ exc' = st.exc
           /\ inList' = st.inList
           /\ inCode' = st.inCode
           /\ codeLang' = st.codeLang
           /\ firstParagraphCaptured' = st.firstParagraphCaptured
           /\ kinds' = Append(kinds, st.kind)
    /\ li' = li + 1
    /\ UNCHANGED <<input, lines, title, ppc, ivars, lvars, xvars>>

\* A loop that waits for one element more than lines has
ParseReturnOffByOne ==
    /\ ppc = "loop"
    /\ li > Len(lines) + 1
    /\ out' = Cleanup(Locals).out
    /\ ppc' = "done"
    /\ UNCHANGED <<input, lines, li, exc, inList, inCode, codeLang,
                   firstParagraphCaptured, title, kinds, ivars, lvars, xvars>>

\* lines 274-280
ParseReturn ==
    /\ ppc = "loop"
    /\ li > Len(lines)
    /\ out' = Cleanup(Locals).out
    /\ ppc' = "done"
    /\ UNCHANGED <<input, lines, li, exc, inList, inCode, codeLang,
                   firstParagraphCaptured, title, kinds, ivars, lvars, xvars>>

NextParse ==
    \/ ParseBegin
    \/ ParseIterate
    \/ ParseReturn

SpecParse == InitParse /\ [][NextParse]_vars

\* The same process with its progress assumed: the loop is sequential code,
\* so a step that can be taken is taken.  Its inputs are made of one line for
\* each rule of the parser, a paragraph with a marker that is never closed and
\* a line of unknown syntax among them.
FairLineSet ==
    { <<"#", " ", "T">>,
      <<"#", "#", " ", "A">>,
      <<"#", "#", "#", " ", "x">>,
      <<"-", " ", "i">>,
      <<">", " ", "q">>,
      <<>>,
      <<BT, BT, BT>>,
      <<"*", "b">>,
      <<"#", "x">> }

FairInputs ==
    {Join(ls) : ls \in SeqsUpTo(FairLineSet, MaxLines) \ {<<>>}}

FairInitParse == ParseEntry(FairInputs)

FairSpecParse == FairInitParse /\ [][NextParse]_vars /\ WF_vars(NextParse)

----------------------------------------------------------------------------
(* time.Parse("2006-01-02", s) on the ten characters loadPosts hands it,   *)
(* and time.Time.After.                                                    *)

DigitVal(c) == (CHOOSE k \in DOMAIN Digits : Digits[k] = c) - 1

Num(s, a, b) ==
    LET RECURSIVE Val(_)
        Val(j) == IF j < a THEN 0 ELSE 10 * Val(j - 1) + DigitVal(s[j])
    IN  Val(b)

IsLeap(y) == y % 4 = 0 /\ (y % 100 # 0 \/ y % 400 = 0)

DaysIn(m, y) ==
    IF m = 2 THEN (IF IsLeap(y) THEN 29 ELSE 28)
    ELSE IF m \in {4, 6, 9, 11} THEN 30 ELSE 31

\* The layout: four digits, "-", two digits, "-", two digits, and nothing else
MatchesLayout(s) ==
    /\ Len(s) = 10
    /\ \A j \in {1, 2, 3, 4, 6, 7, 9, 10} : IsDigit(s[j])
    /\ s[5] = "-" /\ s[8] = "-"

NoDate == [year |-> 0, month |-> 0, day |-> 0]

\* A parser that checks the layout and the month but not the day of the month
ParseOKAnyDay(s) ==
    /\ MatchesLayout(s)
    /\ Num(s, 6, 7) \in 1..12

\* err == nil, and the date parsed
ParseOK(s) ==
    /\ MatchesLayout(s)
    /\ Num(s, 6, 7) \in 1..12
    /\ Num(s, 9, 10) \in 1..DaysIn(Num(s, 6, 7), Num(s, 1, 4))

ParseDate(s) ==
    IF ParseOK(s)
    THEN [year |-> Num(s, 1, 4), month |-> Num(s, 6, 7), day |-> Num(s, 9, 10)]
    ELSE NoDate

After(a, b) ==
    \/ a.year > b.year
    \/ a.year = b.year /\ a.month > b.month
    \/ a.year = b.year /\ a.month = b.month /\ a.day > b.day

----------------------------------------------------------------------------
(* loadPosts.  os.ReadDir returns the entries sorted by file name; a       *)
(* listing is a selection of DirEntries, which is in that order.           *)

MdSuffix == <<".", "m", "d">>

Article == <<"#", " ", "T", "\n", "\n", "p">>

Entry(n, d) == [name |-> n, data |-> d, readable |-> TRUE]

\* an entry os.ReadFile fails on: a directory, or a file without read permission
Locked(n, d) == [name |-> n, data |-> d, readable |-> FALSE]

DirEntries ==
    << Entry(<<"2", "0", "2", "4", "-", "0", "2", "-", "2", "9", "-", "l", ".", "m", "d">>, Article),
       Entry(<<"2", "0", "2", "5", "-", "0", "2", "-", "2", "9", "-", "n", ".", "m", "d">>, Article),
       Entry(<<"2", "0", "2", "5", "-", "0", "7", "-", "0", "1", "-", "a", ".", "m", "d">>, Article),
       Entry(<<"2", "0", "2", "5", "-", "0", "7", "-", "0", "1", "-", "b", ".", "m", "d">>, <<"p">>),
       Entry(<<"2", "0", "2", "5", "-", "0", "7", "-", "0", "1", ".", "m", "d">>, <<>>),
       Entry(<<"2", "0", "2", "5", "-", "0", "7", ".", "m", "d">>, Article),
       Entry(<<"2", "0", "2", "5", "-", "0", "8", "-", "0", "1", "-", "d", ".", "m", "d">>, <<"p">>),
       Locked(<<"2", "0", "2", "5", "-", "0", "9", "-", "0", "9", "-", "u", ".", "m", "d">>, Article),
       Entry(<<"2", "0", "2", "5", "-", "1", "2", "-", "0", "3", "-", "x", ".", "m", "d">>, Article),
       Entry(<<"2", "0", "2", "5", "-", "1", "3", "-", "0", "1", "-", "m", ".", "m", "d">>, Article),
       Entry(<<"2", "0", "2", "5", "-", "7", "-", "1", "-", "a", "b", ".", "m", "d">>, Article),
       Entry(<<"_", "2", "0", "2", "5", "-", "1", "2", "-", "0", "3", "-", "x", ".", "m", "d">>, Article),
       Entry(<<"a", ".", "m", "d">>, Article),
       Entry(<<"n", "o", "t", "e", "s", ".", "t", "x", "t">>, <<"p">>) >>

\* The entries of DirEntries at the indices S, in their order
Select(S) ==
    [k \in 1..Cardinality(S) |->
        DirEntries[CHOOSE x \in S : Cardinality({y \in S : y < x}) = k - 1]]

Listings ==
    {Select(S) : S \in {T \in SUBSET DOMAIN DirEntries : Cardinality(T) <= MaxFiles}}

\* len(f.Name()) < 10
TooShort(name) == Len(name) < 10

\* f.Name()[:10]
DateStr(name) == SubSeq(name, 1, 10)

\* lines 145-152
PostOf(f, r) ==
    [Title |-> r.title, Slug |-> TrimSuffix(f.name, MdSuffix),
     Date |-> ParseDate(DateStr(f.name)), Content |-> r.content,
     Excerpt |-> r.excerpt]

\* line 143: data, _ := os.ReadFile(path); data is nil when the call fails
ReadFile(f) == IF f.readable THEN f.data ELSE <<>>

\* lines 143-152
NewPost(f) == PostOf(f, parseMarkdown(ReadFile(f)))

\* A comparator with its arguments the wrong way round
LessOldestFirst(a, b) == After(b.Date, a.Date)

\* the less function handed to sort.Slice
Less(a, b) == After(a.Date, b.Date)

IsSorted(ps) == \A i, j \in 1..Len(ps) : i < j => ~Less(ps[j], ps[i])

\* sort.Slice: the slice ends up sorted by Less; the order of elements that
\* Less does not tell apart is not specified (only sort.SliceStable keeps it)
SortSlice(ps) ==
    {q \in {[k \in 1..Len(ps) |-> ps[f[k]]] : f \in Permutations(1..Len(ps))} :
        IsSorted(q)}

InitLoad ==
    /\ files \in Listings
    /\ fi = 1
    /\ posts = <<>>
    /\ warnings = <<>>
    /\ lpc = "loop"
    /\ InlineIdle
    /\ ParseIdle
    /\ ExtraIdle

InLoop == lpc = "loop" /\ fi <= Len(files)

\* line 128: not an article
LoadOther ==
    /\ InLoop
    /\ ~HasSuffix(files[fi].name, MdSuffix)
    /\ fi' = fi + 1
    /\ UNCHANGED <<files, posts, warnings, lpc, ivars, pvars, xvars>>

\* lines 131-134
LoadTooShort ==
    /\ InLoop
    /\ HasSuffix(files[fi].name, MdSuffix)
    /\ TooShort(files[fi].name)
    /\ warnings' = Append(warnings, [file |-> files[fi].name, why |-> "short"])
    /\ fi' = fi + 1
    /\ UNCHANGED <<files, posts, lpc, ivars, pvars, xvars>>

\* A rejection that leaves the loop instead of going on with the next entry
LoadBadDateBreaks ==
    /\ InLoop
    /\ HasSuffix(files[fi].name, MdSuffix)
    /\ ~TooShort(files[fi].name)
    /\ ~ParseOK(DateStr(files[fi].name))
    /\ warnings' = Append(warnings, [file |-> files[fi].name, why |-> "date"])
    /\ fi' = Len(files) + 1
    /\ UNCHANGED <<files, posts, lpc, ivars, pvars, xvars>>

\* lines 136-141
LoadBadDate ==
    /\ InLoop
    /\ HasSuffix(files[fi].name, MdSuffix)
    /\ ~TooShort(files[fi].name)
    /\ ~ParseOK(DateStr(files[fi].name))
    /\ warnings' = Append(warnings, [file |-> files[fi].name, why |-> "date"])
    /\ fi' = fi + 1
    /\ UNCHANGED <<files, posts, lpc, ivars, pvars, xvars>>

\* lines 143-152
LoadAccept ==
    /\ InLoop
    /\ HasSuffix(files[fi].name, MdSuffix)
    /\ ~TooShort(files[fi].name)
    /\ ParseOK(DateStr(files[fi].name))
    /\ posts' = Append(posts, NewPost(files[fi]))
    /\ fi' = fi + 1
    /\ UNCHANGED <<files, warnings, lpc, ivars, pvars, xvars>>

\* lines 156-160
LoadSort ==
    /\ lpc = "loop"
    /\ fi > Len(files)
    /\ posts' \in SortSlice(posts)
    /\ lpc' = "done"
    /\ UNCHANGED <<files, fi, warnings, ivars, pvars, xvars>>

NextLoad ==
    \/ LoadOther
    \/ LoadTooShort
    \/ LoadBadDate
    \/ LoadAccept
    \/ LoadSort

SpecLoad == InitLoad /\ [][NextLoad]_vars

----------------------------------------------------------------------------
(* sanitizeAnchor as a process: one action per character of the input,     *)
(* and the return.                                                         *)

AnchorChars == {"H", "w", "7", "-", "_", ".", "~", " ", "!"}

HelloWorld == <<"H", "e", "l", "l", "o", ",", " ", "W", "o", "r", "l", "d", "!">>

AnchorInputs == SeqsUpTo(AnchorChars, MaxAnchor) \cup {HelloWorld}

InitAnchor ==
    /\ ainput \in AnchorInputs
    /\ anchor = <<>>
    /\ ai = 1
    /\ apc = "loop"
    /\ InlineIdle
    /\ ParseIdle
    /\ LoadIdle
    /\ BuildIdle

\* lines 47-56: one character of the input
AnchorRune ==
    /\ apc = "loop"
    /\ ai <= Len(ainput)
    /\ anchor' = Append(anchor, SanitizeRune(ainput[ai]))
    /\ ai' = ai + 1
    /\ UNCHANGED <<ainput, apc, ivars, pvars, lvars, evars, bvars, wvars, hvars>>

\* line 57
AnchorReturn ==
    /\ apc = "loop"
    /\ ai > Len(ainput)
    /\ anchor' = ToLower(anchor)
    /\ apc' = "done"
    /\ UNCHANGED <<ainput, ai, ivars, pvars, lvars, evars, bvars, wvars, hvars>>

NextAnchor ==
    \/ AnchorRune
    \/ AnchorReturn

SpecAnchor == InitAnchor /\ [][NextAnchor]_vars

----------------------------------------------------------------------------
(* loadPosts as a function of what os.ReadDir returns, and the files the   *)
(* generators write.                                                       *)

\* line 125: the error of os.ReadDir is dropped, files is then empty
ReadDir(ok, listing) == IF ok THEN listing ELSE <<>>

\* lines 127-141: the indices of the entries that become posts
AcceptedAt(fs) ==
    {k \in 1..Len(fs) :
        /\ HasSuffix(fs[k].name, MdSuffix)
        /\ ~TooShort(fs[k].name)
        /\ ParseOK(DateStr(fs[k].name))}

Nth(S, k) == CHOOSE x \in S : Cardinality({y \in S : y < x}) = k - 1

\* lines 126-154: posts before the sort
Accepted(fs) ==
    [k \in 1..Cardinality(AcceptedAt(fs)) |-> NewPost(fs[Nth(AcceptedAt(fs), k)])]

\* sort.Slice in one build of the program is a function of the slice: it
\* sorts by Less and puts elements that Less does not tell apart in an order
\* of its own, here the order they came in or the opposite one
TieRules == {"kept", "reversed"}

SortWith(rule, ps) ==
    LET Sorted(f) ==
            \A i, j \in 1..Len(ps) :
                i < j =>
                    /\ ~Less(ps[f[j]], ps[f[i]])
                    /\ ~Less(ps[f[i]], ps[f[j]]) =>
                           IF rule = "kept" THEN f[i] < f[j] ELSE f[i] > f[j]
        g == CHOOSE f \in Permutations(1..Len(ps)) : Sorted(f)
    IN  [k \in 1..Len(ps) |-> ps[g[k]]]

\* lines 124-161
loadPosts(fs, rule) == SortWith(rule, Accepted(fs))

\* lines 283-286 with the callers' `_ =`: the file is written, or the error
\* of os.WriteFile is dropped
writeIfChanged(pub, path, content, ok) ==
    IF ok THEN [pub EXCEPT ![path] = {content}] ELSE pub

\* line 301: the data handed to the index template
IndexPage(ps) == [Posts |-> ps]

\* lines 313-325: the data handed to the article template
ArticlePage(p) ==
    [Title |-> p.Title, Slug |-> p.Slug, Date |-> p.Date, Content |-> p.Content]

\* lines 311-327: one file for each post, beside the files already there
WritePages(pub, ps, ok) ==
    IF ok
    THEN [pub EXCEPT !.pages =
             {q \in @ : \A k \in 1..Len(ps) : q.Slug # ps[k].Slug}
                 \cup {ArticlePage(ps[k]) : k \in 1..Len(ps)}]
    ELSE pub

\* lines 347-360: one url for each post and one, stamped now, for the index
Sitemap(ps, now) ==
    [urls |-> [k \in 1..Len(ps) |-> [loc |-> ps[k].Slug, lastmod |-> ps[k].Date]],
     index |-> now]

\* lines 363-393: the feed, stamped now, the excerpt of each post escaped
Feed(ps, now) ==
    [updated |-> now,
     entries |-> [k \in 1..Len(ps) |->
                     [title |-> ps[k].Title, slug |-> ps[k].Slug,
                      updated |-> ps[k].Date,
                      content |-> EscapeString(ps[k].Excerpt)]]]

\* A path: the directory, relative to the working directory, and the name
\* lines 62-63: os.MkdirAll("public"), os.MkdirAll("public/articles")
MadeDirs ==
    {[dir |-> ".", file |-> <<"public">>], [dir |-> "public", file |-> <<"articles">>]}

\* lines 303, 334, 360, 393: "public/" + name
PublicPath(name) == [dir |-> "public", file |-> <<name>>]

\* A generator that leaves "public/" out of the path of a page
PagePathBesideSources(slug) == [dir |-> "articles", file |-> slug \o <<".", "h", "t", "m", "l">>]

\* line 327: "public/articles/" + post.Slug + ".html"
PagePath(slug) == [dir |-> "public/articles", file |-> slug \o <<".", "h", "t", "m", "l">>]

PagePaths(ps) == {PagePath(ps[k].Slug) : k \in 1..Len(ps)}

\* line 101
watchPaths == {"articles", "style.css", "main.go", "index.html", "article.html"}

\* fsnotify reports a change of a watched path and of an entry of a watched
\* directory
Watched(p) ==
    \/ p.dir = "." /\ p.file \in {<<w>> : w \in watchPaths}
    \/ p.dir \in watchPaths

\* the events the watcher gets for writes to paths, once it is open
Notified(paths) ==
    IF chanOpen THEN Cardinality({p \in paths : Watched(p)}) ELSE 0

----------------------------------------------------------------------------
(* main and buildSite as a process: one action per call buildSite makes.   *)
(* The wall clock is the number of the build.                              *)

\* The entries of DirEntries found in articles/
BuildEntries == {3, 4, 7, 10, 14}

BuildListings ==
    {Select(S) : S \in {T \in SUBSET BuildEntries : Cardinality(T) <= MaxFiles}}

\* The process is started: lines 72-86 with no arguments or with "build"
MainStart(events, listings) ==
    /\ dirOK \in BOOLEAN /\ outOK \in BOOLEAN
    /\ idxOK \in BOOLEAN /\ artOK \in BOOLEAN
    /\ articles \in listings
    /\ public = NoPublic
    /\ tieRule \in TieRules
    /\ mpc = "start" /\ bpc = "idle" /\ bposts = <<>> /\ bfiles = <<>>
    /\ builds = 0 /\ completed = 0 /\ active = 0 /\ exit = "running"
    /\ pending = 0 /\ perrs = 0 /\ budget = events /\ received = 0
    /\ chanOpen = FALSE
    /\ last = NoBuild /\ prev = NoBuild /\ written = {}
    /\ InlineIdle /\ ParseIdle /\ LoadIdle /\ AnchorIdle

\* the call of buildSite: lines 87 and 114
EnterBuild ==
    /\ bpc' = "load"
    /\ builds' = builds + 1
    /\ active' = active + 1

\* line 87
MainBuild ==
    /\ exit = "running"
    /\ mpc = "start"
    /\ mpc' = "build"
    /\ EnterBuild
    /\ UNCHANGED <<bposts, bfiles, completed, exit, evars, wvars, hvars,
                   ivars, pvars, lvars, avars>>

\* line 61, were the posts kept in a variable that outlives the call
BuildLoadAppends ==
    /\ exit = "running"
    /\ bpc = "load"
    /\ bfiles' = ReadDir(dirOK, articles)
    /\ bposts' = bposts \o loadPosts(bfiles', tieRule)
    /\ bpc' = "mkdir"
    /\ UNCHANGED <<mpc, builds, completed, active, exit, evars, wvars, hvars,
                   ivars, pvars, lvars, avars>>

\* line 61
BuildLoad ==
    /\ exit = "running"
    /\ bpc = "load"
    /\ bfiles' = ReadDir(dirOK, articles)
    /\ bposts' = loadPosts(bfiles', tieRule)
    /\ bpc' = "mkdir"
    /\ UNCHANGED <<mpc, builds, completed, active, exit, evars, wvars, hvars,
                   ivars, pvars, lvars, avars>>

\* lines 62-63: the errors of os.MkdirAll are dropped
BuildMkdir ==
    /\ exit = "running"
    /\ bpc = "mkdir"
    /\ bpc' = "copy"
    /\ written' = written \cup MadeDirs
    /\ pending' = pending + Notified(MadeDirs)
    /\ UNCHANGED <<mpc, bposts, bfiles, builds, completed, active, exit, evars,
                   perrs, budget, received, chanOpen, last, prev,
                   ivars, pvars, lvars, avars>>

\* lines 64, 331-336: style.css is copied when it can be read
BuildCopy ==
    /\ exit = "running"
    /\ bpc = "copy"
    /\ \E readable \in BOOLEAN :
           /\ public' = writeIfChanged(public, "style", "style.css", readable /\ outOK)
           /\ written' = IF readable THEN written \cup {PublicPath("style.css")}
                          ELSE written
           /\ pending' = IF readable THEN pending + Notified({PublicPath("style.css")})
                          ELSE pending
    /\ bpc' = "index"
    /\ UNCHANGED <<mpc, bposts, bfiles, builds, completed, active, exit,
                   dirOK, outOK, idxOK, artOK, articles, tieRule,
                   perrs, budget, received, chanOpen, last, prev,
                   ivars, pvars, lvars, avars>>

\* lines 65, 295-303
BuildIndex ==
    /\ exit = "running"
    /\ bpc = "index"
    /\ idxOK
    /\ public' = writeIfChanged(public, "index", IndexPage(bposts), outOK)
    /\ written' = written \cup {PublicPath("index.html")}
    /\ pending' = pending + Notified({PublicPath("index.html")})
    /\ bpc' = "posts"
    /\ UNCHANGED <<mpc, bposts, bfiles, builds, completed, active, exit,
                   dirOK, outOK, idxOK, artOK, articles, tieRule,
                   perrs, budget, received, chanOpen, last, prev,
                   ivars, pvars, lvars, avars>>

\* lines 296-299: index.html cannot be read, panic
BuildIndexPanic ==
    /\ exit = "running"
    /\ bpc = "index"
    /\ ~idxOK
    /\ exit' = "2"
    /\ UNCHANGED <<mpc, bpc, bposts, bfiles, builds, completed, active, evars,
                   wvars, hvars, ivars, pvars, lvars, avars>>

\* lines 66, 306-328
BuildPosts ==
    /\ exit = "running"
    /\ bpc = "posts"
    /\ artOK
    /\ public' = WritePages(public, bposts, outOK)
    /\ written' = written \cup PagePaths(bposts)
    /\ pending' = pending + Notified(PagePaths(bposts))
    /\ bpc' = "sitemap"
    /\ UNCHANGED <<mpc, bposts, bfiles, builds, completed, active, exit,
                   dirOK, outOK, idxOK, artOK, articles, tieRule,
                   perrs, budget, received, chanOpen, last, prev,
                   ivars, pvars, lvars, avars>>

\* lines 307-310: article.html cannot be read, panic
BuildPostsPanic ==
    /\ exit = "running"
    /\ bpc = "posts"
    /\ ~artOK
    /\ exit' = "2"
    /\ UNCHANGED <<mpc, bpc, bposts, bfiles, builds, completed, active, evars,
                   wvars, hvars, ivars, pvars, lvars, avars>>

\* lines 67, 338-361
BuildSitemap ==
    /\ exit = "running"
    /\ bpc = "sitemap"
    /\ public' = writeIfChanged(public, "sitemap", Sitemap(bposts, builds), outOK)
    /\ written' = written \cup {PublicPath("sitemap.xml")}
    /\ pending' = pending + Notified({PublicPath("sitemap.xml")})
    /\ bpc' = "feed"
    /\ UNCHANGED <<mpc, bposts, bfiles, builds, completed, active, exit,
                   dirOK, outOK, idxOK, artOK, articles, tieRule,
                   perrs, budget, received, chanOpen, last, prev,
                   ivars, pvars, lvars, avars>>

\* lines 68, 363-394
BuildFeed ==
    /\ exit = "running"
    /\ bpc = "feed"
    /\ public' = writeIfChanged(public, "feed", Feed(bposts, builds), outOK)
    /\ written' = written \cup {PublicPath("feed.xml")}
    /\ pending' = pending + Notified({PublicPath("feed.xml")})
    /\ bpc' = "complete"
    /\ UNCHANGED <<mpc, bposts, bfiles, builds, completed, active, exit,
                   dirOK, outOK, idxOK, artOK, articles, tieRule,
                   perrs, budget, received, chanOpen, last, prev,
                   ivars, pvars, lvars, avars>>

\* lines 69-70: "Build complete." is printed and buildSite returns, to main
\* (line 88) or to the loop of watchFiles (line 107)
BuildComplete ==
    /\ exit = "running"
    /\ bpc = "complete"
    /\ completed' = completed + 1
    /\ active' = active - 1
    /\ bpc' = "idle"
    /\ mpc' = IF mpc = "build" THEN "built" ELSE "select"
    /\ last' = [files |-> bfiles, posts |-> bposts, out |-> public]
    /\ prev' = last
    /\ UNCHANGED <<bposts, bfiles, builds, exit, evars, wvars, written,
                   ivars, pvars, lvars, avars>>

\* lines 88-93 without --watch: main returns
MainExit ==
    /\ exit = "running"
    /\ mpc = "built"
    /\ mpc' = "exited"
    /\ exit' = "0"
    /\ UNCHANGED <<bpc, bposts, bfiles, builds, completed, active, evars, wvars,
                   hvars, ivars, pvars, lvars, avars>>

NextBuild ==
    \/ MainBuild
    \/ BuildLoad
    \/ BuildMkdir
    \/ BuildCopy
    \/ BuildIndex
    \/ BuildIndexPanic
    \/ BuildPosts
    \/ BuildPostsPanic
    \/ BuildSitemap
    \/ BuildFeed
    \/ BuildComplete
    \/ MainExit

InitBuild == MainStart(0, BuildListings)

SpecBuild == InitBuild /\ [][NextBuild]_vars

----------------------------------------------------------------------------
(* main with --watch: watchFiles.  The watcher of fsnotify runs beside     *)
(* main and hands over one event for each change of a watched file.        *)

\* lines 89-91, 96-106: the watcher is made and watchFiles enters its loop
MainWatch ==
    /\ exit = "running"
    /\ mpc = "built"
    /\ mpc' = "select"
    /\ chanOpen' = TRUE
    /\ UNCHANGED <<bpc, bposts, bfiles, builds, completed, active, exit, evars,
                   pending, perrs, budget, received, hvars,
                   ivars, pvars, lvars, avars>>

\* lines 96-99: fsnotify.NewWatcher fails, log.Fatal
MainWatchFatal ==
    /\ exit = "running"
    /\ mpc = "built"
    /\ mpc' = "exited"
    /\ exit' = "1"
    /\ UNCHANGED <<bpc, bposts, bfiles, builds, completed, active, evars, wvars,
                   hvars, ivars, pvars, lvars, avars>>

\* What articles/ holds in watch mode: two articles of one date, or fewer
WatchEntries == {3, 4}

WatchListings ==
    {Select(S) : S \in {T \in SUBSET WatchEntries : Cardinality(T) <= MaxFiles}}

\* A watched file changes and the watcher has an event for it: the file is
\* only touched, or articles/ holds other entries, or a template appears or
\* disappears
FileEvent ==
    /\ exit = "running"
    /\ chanOpen
    /\ budget > 0
    /\ \E change \in {"touch", "articles", "index.html", "article.html"} :
           /\ articles' \in IF change = "articles" THEN WatchListings ELSE {articles}
           /\ idxOK' = IF change = "index.html" THEN ~idxOK ELSE idxOK
           /\ artOK' = IF change = "article.html" THEN ~artOK ELSE artOK
    /\ pending' = pending + 1
    /\ budget' = budget - 1
    /\ UNCHANGED <<dirOK, outOK, public, tieRule, bvars, perrs, received,
                   chanOpen, hvars, ivars, pvars, lvars, avars>>

\* The watcher has an error to report
WatcherError ==
    /\ exit = "running"
    /\ chanOpen
    /\ budget > 0
    /\ perrs' = perrs + 1
    /\ budget' = budget - 1
    /\ UNCHANGED <<evars, bvars, pending, received, chanOpen, hvars,
                   ivars, pvars, lvars, avars>>

\* The watcher closes its channels; what it had not handed over is lost
WatcherClose ==
    /\ exit = "running"
    /\ chanOpen
    /\ chanOpen' = FALSE
    /\ pending' = 0
    /\ perrs' = 0
    /\ UNCHANGED <<evars, bvars, budget, received, hvars,
                   ivars, pvars, lvars, avars>>

\* lines 109-114, were the call "go buildSite()": the loop does not wait
WatchEventSpawns ==
    /\ exit = "running"
    /\ mpc = "select"
    /\ chanOpen
    /\ pending > 0
    /\ pending' = pending - 1
    /\ received' = received + 1
    /\ mpc' = "select"
    /\ EnterBuild
    /\ UNCHANGED <<bposts, bfiles, completed, exit, evars, perrs, budget,
                   chanOpen, hvars, ivars, pvars, lvars, avars>>

\* lines 109-114: an event is received and buildSite is called
WatchEvent ==
    /\ exit = "running"
    /\ mpc = "select"
    /\ chanOpen
    /\ pending > 0
    /\ pending' = pending - 1
    /\ received' = received + 1
    /\ mpc' = "rebuild"
    /\ EnterBuild
    /\ UNCHANGED <<bposts, bfiles, completed, exit, evars, perrs, budget,
                   chanOpen, hvars, ivars, pvars, lvars, avars>>

\* lines 115-119: an error is received and logged
WatchError ==
    /\ exit = "running"
    /\ mpc = "select"
    /\ chanOpen
    /\ perrs > 0
    /\ perrs' = perrs - 1
    /\ UNCHANGED <<evars, bvars, pending, budget, received, chanOpen, hvars,
                   ivars, pvars, lvars, avars>>

\* lines 110-112, 116-118, 92-93: a channel is closed, watchFiles and main
\* return
WatchReturn ==
    /\ exit = "running"
    /\ mpc = "select"
    /\ ~chanOpen
    /\ mpc' = "exited"
    /\ exit' = "0"
    /\ UNCHANGED <<bpc, bposts, bfiles, builds, completed, active, evars, wvars,
                   hvars, ivars, pvars, lvars, avars>>

NextWatch ==
    \/ MainBuild
    \/ BuildLoad
    \/ BuildMkdir
    \/ BuildCopy
    \/ BuildIndex
    \/ BuildIndexPanic
    \/ BuildPosts
    \/ BuildPostsPanic
    \/ BuildSitemap
    \/ BuildFeed
    \/ BuildComplete
    \/ MainWatch
    \/ MainWatchFatal
    \/ FileEvent
    \/ WatcherError
    \/ WatcherClose
    \/ WatchEvent
    \/ WatchError
    \/ WatchReturn

InitWatch == MainStart(MaxEvents, WatchListings)

SpecWatch == InitWatch /\ [][NextWatch]_vars

----------------------------------------------------------------------------
(* Properties of loadPosts. *)

\* A date as one number, for comparing
DateKey(d) == d.year * 10000 + d.month * 100 + d.day

\* The position in the listing of the entry a post was made from
Pos(p) == CHOOSE k \in 1..Len(files) : files[k].name = p.Slug \o MdSuffix

MonthLength == <<31, 28, 31, 30, 31, 30, 31, 31, 30, 31, 30, 31>>

\* s is ten characters YYYY-MM-DD that name a day of the calendar
IsCalendarDate(s) ==
    /\ Len(s) = 10
    /\ \A j \in 1..10 : IF j \in {5, 8} THEN s[j] = "-" ELSE s[j] \in Range(Digits)
    /\ Num(s, 6, 7) \in 1..12
    /\ Num(s, 9, 10) >= 1
    /\ Num(s, 9, 10) <= MonthLength[Num(s, 6, 7)]
           + (IF Num(s, 6, 7) = 2 /\ Num(s, 1, 4) % 4 = 0
                  /\ (Num(s, 1, 4) % 100 # 0 \/ Num(s, 1, 4) % 400 = 0)
              THEN 1 ELSE 0)

IsArticleName(n) == HasSuffix(n, MdSuffix)

GoodName(n) == IsArticleName(n) /\ Len(n) >= 10 /\ IsCalendarDate(SubSeq(n, 1, 10))

PostsOf(n) == {k \in 1..Len(posts) : posts[k].Slug \o MdSuffix = n}

WarningsOf(n) == {k \in 1..Len(warnings) : warnings[k].file = n}

\* C1: the sequence loadPosts returns is ordered newest first: for all
\* positions i < j the date of posts[i] is not earlier than that of posts[j].
C1_NewestFirst ==
    lpc = "done" =>
        \A i, j \in 1..Len(posts) :
            i < j => DateKey(posts[i].Date) >= DateKey(posts[j].Date)

\* C1 witness: loadPosts has returned two posts of different dates that the
\* listing held in the opposite order.
C1_Witness ==
    /\ lpc = "done"
    /\ \E i, j \in 1..Len(posts) :
        /\ i < j
        /\ DateKey(posts[i].Date) > DateKey(posts[j].Date)
        /\ Pos(posts[i]) > Pos(posts[j])

\* C2: the sort is stable: two returned posts of the same date stand in the
\* order in which the listing held them.
C2_Stable ==
    lpc = "done" =>
        \A i, j \in 1..Len(posts) :
            (i < j /\ DateKey(posts[i].Date) = DateKey(posts[j].Date))
                => Pos(posts[i]) < Pos(posts[j])

\* C3: every post loadPosts holds or returns comes from a .md entry of the
\* listing whose name has at least ten characters, the first ten a calendar
\* date YYYY-MM-DD, and the post's date is that date.
C3_OnlyDatedPosts ==
    \A k \in 1..Len(posts) :
        \E e \in 1..Len(files) :
            /\ files[e].name = posts[k].Slug \o MdSuffix
            /\ GoodName(files[e].name)
            /\ posts[k].Date.year = Num(files[e].name, 1, 4)
            /\ posts[k].Date.month = Num(files[e].name, 6, 7)
            /\ posts[k].Date.day = Num(files[e].name, 9, 10)

\* C3 witness: loadPosts has returned a post although the listing also held an
\* article name with a date that is not of the calendar and one too short.
C3_Witness ==
    /\ lpc = "done"
    /\ Len(posts) >= 1
    /\ \E k \in 1..Len(warnings) : warnings[k].why = "date"
    /\ \E k \in 1..Len(warnings) : warnings[k].why = "short"

\* C4: when loadPosts returns, each .md entry with a valid date prefix has made
\* exactly one post (its slug the name without .md) and no warning, each .md
\* entry that is too short or has no valid date prefix has made no post and
\* exactly one warning, and every entry of the listing has been processed,
\* whatever was rejected before it.
C4_OnePostOrOneWarning ==
    lpc = "done" =>
        /\ fi = Len(files) + 1
        /\ \A e \in 1..Len(files) :
            IF GoodName(files[e].name)
            THEN Cardinality(PostsOf(files[e].name)) = 1
                 /\ WarningsOf(files[e].name) = {}
            ELSE IF IsArticleName(files[e].name)
            THEN PostsOf(files[e].name) = {}
                 /\ Cardinality(WarningsOf(files[e].name)) = 1
            ELSE PostsOf(files[e].name) = {} /\ WarningsOf(files[e].name) = {}

\* C4 witness: loadPosts has returned with a post made from an entry that
\* stands behind a rejected entry in the listing.
C4_Witness ==
    /\ lpc = "done"
    /\ \E a, b \in 1..Len(files) :
        /\ a < b
        /\ Cardinality(WarningsOf(files[a].name)) = 1
        /\ Cardinality(PostsOf(files[b].name)) = 1

----------------------------------------------------------------------------
(* Properties of parseMarkdown. *)

\* The tags that open a list or a code block, each with the tag that closes it
BlockTags ==
    { [open |-> {"<ul>"}, close |-> "</ul>"],
      [open |-> {"<div class=\"code-block-wrapper\">"}, close |-> "</div>"],
      [open |-> {"<pre>"}, close |-> "</pre>"],
      [open |-> {"<code>", "<code class=\"language-"}, close |-> "</code>"] }

OpensFrom(s, i, t) == Cardinality({j \in i..Len(s) : s[j] \in t.open})

ClosesFrom(s, i, t) == Cardinality({j \in i..Len(s) : s[j] = t.close})

\* C5: when parseMarkdown returns, every list-start tag and every code-block
\* opening (wrapper, pre, code) in the output has a close tag of its own
\* behind it: from each such tag on, the output holds at least as many close
\* tags as open tags of that kind.
C5_BlocksClosed ==
    ppc = "done" =>
        \A t \in BlockTags :
            \A i \in 1..Len(out) :
                out[i] \in t.open => OpensFrom(out, i, t) <= ClosesFrom(out, i, t)

\* C5 witness: parseMarkdown has returned from an input that ended inside a
\* list and inside a code fence that was never closed.
C5_Witness == ppc = "done" /\ inList /\ inCode

\* C6: when the first line of the input starts with "# ", that line is
\* emitted as an <h1> block by the heading rule.
C6_TitleLineIsH1 ==
    (ppc = "done" /\ HasPrefix(lines[1], <<"#", " ">>))
        => (kinds[1] = "h1" /\ HasPrefix(out, <<"<h1>">>))

Headings == {k \in 1..Len(kinds) : kinds[k] \in {"h1", "h2", "h3"}}

\* C7: when the first heading the parser renders is a level-1 heading, the
\* title parseMarkdown returns is the text of that heading.
C7_TitleIsFirstHeading ==
    (ppc = "done" /\ Headings # {} /\ kinds[Min(Headings)] = "h1")
        => title = TrimPrefix(TrimSpace(lines[Min(Headings)]), <<"#", " ">>)

Paragraphs == {k \in 1..Len(kinds) : kinds[k] = "para"}

\* C8: at every point of the loop and at return, the excerpt is empty exactly
\* when no line has been handled by the default paragraph rule, and is
\* otherwise the inline-formatted text of the first line that rule handled
\* (so no later line changes it, and no other kind of line sets it).
C8_ExcerptIsFirstParagraph ==
    ppc \in {"loop", "done"} =>
        IF Paragraphs = {} THEN exc = <<>>
        ELSE exc # <<>> /\ exc = formatInline(TrimSpace(lines[Min(Paragraphs)]))

\* C8 witness: parseMarkdown has returned from an input with two paragraphs
\* of different text, the excerpt being the first.
C8_Witness ==
    /\ ppc = "done"
    /\ \E a, b \in Paragraphs : a < b /\ lines[a] # lines[b]
    /\ exc # <<>>

\* C9: parseMarkdown returns for every input, after it has processed each
\* line once, in order.
C9_Returns == <>(ppc = "done" /\ li = Len(lines) + 1 /\ Len(kinds) = Len(lines))

\* C9 witness: parseMarkdown has returned from an input of several lines that
\* ends inside a code fence, every line processed.
C9_Witness ==
    /\ ppc = "done"
    /\ inCode
    /\ Len(lines) >= 2
    /\ Len(kinds) = Len(lines)
    /\ kinds[Len(kinds)] = "code"

----------------------------------------------------------------------------
(* Properties of formatInline. *)

\* The literals formatInline inserts
InlineTags ==
    { "<figure>", "<img src=\"", "\" alt=\"", "\">", "<figcaption>",
      "</figcaption>", "</figure>", "<a href=\"", "</a>", "<code>", "</code>",
      "<strong>", "</strong>", "<del>", "</del>", "<em>", "</em>" }

EntityOf ==
    [c \in Special |->
        CASE c = "&" -> "&amp;" [] c = "<" -> "&lt;" [] c = ">" -> "&gt;"
          [] c = "\"" -> "&#34;" [] c = "'" -> "&#39;"]

Occurrences(s, c) == Cardinality({j \in 1..Len(s) : s[j] = c})

\* C10: from the first pass on, the text holds each &, <, >, double and single
\* quote of the input only as its entity, and no markup before the escaping is
\* done; every other piece of the text is a literal formatInline inserted or a
\* character of the input that is none of the five.
C10_EscapedFirst ==
    /\ ipc = "image" => (Len(text) = Len(itext) /\ \A j \in 1..Len(text) : text[j] \notin InlineTags)
    /\ ipc \in {"image", "link", "code", "bold", "strike", "italic", "done"} =>
        /\ \A j \in 1..Len(text) :
            \/ text[j] \in InlineTags
            \/ text[j] \in Range(EntityOf)
            \/ text[j] \in Range(itext) \ Special
        /\ \A c \in Special :
            /\ Occurrences(itext, c) <= Occurrences(text, EntityOf[c])
            /\ Occurrences(itext, c) = 0 => Occurrences(text, EntityOf[c]) = 0

\* C10 witness: formatInline has returned a link whose target held a "<" in
\* the input, now an entity inside the inserted anchor.
C10_Witness ==
    /\ ipc = "done"
    /\ Occurrences(itext, "<") > 0
    /\ Occurrences(text, "<") = 0
    /\ Occurrences(text, "&lt;") > 0
    /\ Occurrences(text, "<a href=\"") > 0

----------------------------------------------------------------------------
(* Properties of sanitizeAnchor. *)

Kept == {"-", "_", ".", "~"}

\* The character the contract gives for c
AnchorOf(c) ==
    IF \E k \in DOMAIN UpperLetters : UpperLetters[k] = c
    THEN LowerLetters[CHOOSE k \in DOMAIN UpperLetters : UpperLetters[k] = c]
    ELSE IF c \in Range(LowerLetters) \cup Range(Digits) \cup Kept THEN c
    ELSE "-"

\* C11: sanitizeAnchor has written one character for each character it has
\* read; what it returns is as long as its input, character for character the
\* lower-case letter or digit, the kept - _ . ~, or one dash for anything
\* else, and "Hello, World!" gives "hello--world-".
C11_CharByChar ==
    /\ apc = "loop" => Len(anchor) = ai - 1
    /\ apc = "done" =>
        /\ Len(anchor) = Len(ainput)
        /\ \A j \in 1..Len(ainput) : anchor[j] = AnchorOf(ainput[j])
        /\ ainput = HelloWorld =>
             anchor = <<"h", "e", "l", "l", "o", "-", "-", "w", "o", "r", "l", "d", "-">>

\* C11 witness: sanitizeAnchor has returned dashes side by side, one of them
\* at the end, for "Hello, World!".
C11_Witness ==
    /\ apc = "done"
    /\ ainput = HelloWorld
    /\ anchor[6] = "-" /\ anchor[7] = "-" /\ anchor[13] = "-"

----------------------------------------------------------------------------
(* Properties of buildSite and main. *)

\* C12: when articles/ cannot be read the build aborts: no index is written
\* from an empty collection, "Build complete." is never printed and the
\* process does not end with status 0.
C12_UnreadableDirAborts ==
    ~dirOK => (public.index = NoFile /\ completed = 0 /\ exit # "0")

\* C13: when public/ cannot be written the build aborts: "Build complete." is
\* never printed and the process does not end with status 0.
C13_FailedWriteAborts ==
    ~outOK => (completed = 0 /\ exit # "0")


----------------------------------------------------------------------------
(* Properties of main with --watch. *)

\* What a finished build leaves, apart from the stamps of the wall clock
Unstamped(b) ==
    [posts |-> b.posts,
     index |-> b.out.index,
     pages |-> b.out.pages,
     sitemap |-> {x.urls : x \in b.out.sitemap},
     feed |-> {x.entries : x \in b.out.feed}]

\* C14: two calls of buildSite that read the same entries of articles/ end
\* with the same posts in the same order, also among posts of one date, and
\* with the same index, article pages, sitemap and feed apart from the
\* stamps of the wall clock.
C14_Idempotent ==
    (completed >= 2 /\ last.files = prev.files) => Unstamped(last) = Unstamped(prev)

C14_Witness ==
    /\ completed >= 2
    /\ last.files = prev.files
    /\ Len(last.posts) = 2
    /\ last.posts[1].Date = last.posts[2].Date
    /\ last.out.index # NoFile
    /\ last.out.sitemap # prev.out.sitemap

\* C15: buildSite never runs twice at the same time: at most one call is
\* between its entry and its return, so a call begins only when the one
\* before it, the first one of main included, has returned.
C15_OneBuildAtATime ==
    /\ active <= 1
    /\ active = 1 <=> bpc # "idle"
    /\ bpc # "idle" => mpc \in {"build", "rebuild"}

\* a rebuild is running while another event waits to be received
C15_Witness ==
    /\ mpc = "rebuild"
    /\ active = 1
    /\ bpc = "posts"
    /\ completed >= 1
    /\ pending > 0

\* C16: while the channels of the watcher are open, every event that
\* watchFiles has received is matched by one complete call of buildSite after
\* the first one of main, the call for the latest event being complete or
\* still running.
C16_EveryEventRebuilt ==
    (chanOpen /\ received >= 1) =>
        \/ completed = received + 1
        \/ completed = received /\ mpc = "rebuild" /\ exit = "running"

----------------------------------------------------------------------------
(* Properties of the code blocks and lists of parseMarkdown. *)

\* the lines among the first k whose trimmed text starts with three backticks
FenceLines(k) == {j \in 1..k : HasPrefix(TrimSpace(lines[j]), Fence)}

\* C17: after any number of lines, inCode is true exactly when an odd number
\* of the lines processed starts, once trimmed, with three backticks; a line
\* that is indented or has text after the backticks counts as well.
C17_FenceParity ==
    ppc \in {"loop", "done"} => (inCode <=> Cardinality(FenceLines(li - 1)) % 2 = 1)

\* an indented fence has closed a code block that a fence with a language
\* had opened
C17_Witness ==
    /\ ppc = "loop"
    /\ li = 3
    /\ lines[1] = <<BT, BT, BT, "g", "o">>
    /\ lines[2] = <<" ", BT, BT, BT>>
    /\ kinds = <<"fenceOpen", "fenceClose">>
    /\ ~inCode

\* the loop is at a line that is not a fence
AtPlainLine ==
    /\ ppc = "loop"
    /\ li <= Len(lines)
    /\ ~HasPrefix(TrimSpace(lines[li]), Fence)

\* C18: inside a code block, an iteration on a line that is not a fence
\* appends the escaped line as it stands, untrimmed, and a newline, and
\* nothing else: inCode, inList, the excerpt and the one-shot paragraph flag
\* keep their values, whatever the line looks like.
C18_CodeLineVerbatim ==
    [][(AtPlainLine /\ inCode /\ li' = li + 1) =>
           /\ out' = out \o EscapeString(lines[li]) \o <<"\n">>
           /\ inCode'
           /\ inList' = inList
           /\ exc' = exc
           /\ firstParagraphCaptured' = firstParagraphCaptured]_vars

\* a blank line was processed inside a code block that began in an open list
C18_Witness ==
    /\ ppc = "loop"
    /\ li = 4
    /\ lines[3] = <<>>
    /\ kinds = <<"item", "fenceOpen", "code">>
    /\ inList
    /\ inCode

\* the trimmed line the loop is at is a list item
AtItem == HasPrefix(TrimSpace(lines[li]), <<"-", " ">>)

\* what the output must begin with after a line that ends an open list
ListClosed == IF inList THEN out \o ListClose ELSE out

\* C19: outside a code block, an iteration on a line that is neither a fence
\* nor a list item leaves inList false; if the list was open the output gains
\* one list-close tag first and then the block of the line, which holds no
\* list tag; a blank line adds nothing else and any other line adds a block.
C19_OtherLineEndsList ==
    [][(AtPlainLine /\ ~inCode /\ ~AtItem /\ li' = li + 1) =>
           /\ ~inList'
           /\ HasPrefix(out', ListClosed)
           /\ \A k \in (Len(ListClosed) + 1)..Len(out') : out'[k] \notin {"<ul>", "</ul>"}
           /\ (TrimSpace(lines[li]) = <<>>) <=> (out' = ListClosed)]_vars

\* a block quote came right after a list item
C19_Witness ==
    /\ ppc = "loop"
    /\ li = 3
    /\ kinds = <<"item", "quote">>
    /\ ~inList
    /\ Occurrences(out, "</ul>") = 1

\* what the output must begin with after a list item
ListOpened == IF inList THEN out ELSE out \o <<"<ul>", "\n">>

\* the pieces of s before position k that are the piece c
Before(s, k, c) == Cardinality({j \in 1..(k - 1) : s[j] = c})

\* every list item of the output stands in a list that is open where it stands
ItemsInsideList ==
    \A k \in 1..Len(out) :
        out[k] = "<li>" => Before(out, k, "<ul>") = Before(out, k, "</ul>") + 1

\* C20: outside a code block, an iteration on a list item writes a list-start
\* tag only if no list is open, then one list item, and leaves inList true,
\* so items that follow each other share one list; and every list item of
\* the output comes after a list-start tag whose list-close tag, if any,
\* comes after the item.
C20_ItemsShareList ==
    /\ []ItemsInsideList
    /\ [][(AtPlainLine /\ ~inCode /\ AtItem /\ li' = li + 1) =>
              /\ inList'
              /\ out' = ListOpened \o <<"<li>">>
                             \o formatInline(TrimPrefix(TrimSpace(lines[li]), <<"-", " ">>))
                             \o <<"</li>", "\n">>]_vars

\* two list items that follow each other stand in one list
C20_Witness ==
    /\ ppc = "loop"
    /\ li = 3
    /\ kinds = <<"item", "item">>
    /\ inList
    /\ Occurrences(out, "<ul>") = 1
    /\ Occurrences(out, "<li>") = 2

----------------------------------------------------------------------------
(* Properties of the headings of parseMarkdown. *)

\* the trimmed line the loop is at begins with the marker m
AtHeading(m) == HasPrefix(TrimSpace(lines[li]), m)

\* the text of the heading the loop is at, behind the marker m
HeadingText(m) == TrimPrefix(TrimSpace(lines[li]), m)

\* the id the contract gives a heading text
IdOf(t) == [j \in 1..Len(t) |-> AnchorOf(t[j])]

\* what one iteration has appended behind the list-close tag, if any
Block(after) == SubSeq(after, Len(ListClosed) + 1, Len(after))

\* C21: outside a code block, the h2 written for a "## " line holds as its
\* id and as the fragment of its self-link one and the same string, the
\* heading text as it stands in the source mapped by sanitizeAnchor; the h1
\* written for a "# " line and the h3 written for a "### " line hold neither
\* an id nor a self-link.
C21_H2AnchorIsSanitizedText ==
    [][(AtPlainLine /\ ~inCode /\ li' = li + 1) =>
           /\ AtHeading(<<"#", "#", " ">>) =>
                 LET id == IdOf(HeadingText(<<"#", "#", " ">>))
                     n == Len(id)
                     b == Block(out')
                 IN  /\ HasPrefix(out', ListClosed)
                     /\ Len(b) >= 2 * n + 4
                     /\ b[1] = "<h2 id=\""
                     /\ SubSeq(b, 2, n + 1) = id
                     /\ b[n + 2] = "\">"
                     /\ b[n + 3] = "<a href=\"#"
                     /\ SubSeq(b, n + 4, 2 * n + 3) = id
                     /\ b[2 * n + 4] = "\">"
           /\ (AtHeading(<<"#", " ">>) \/ AtHeading(<<"#", "#", "#", " ">>)) =>
                 /\ HasPrefix(out', ListClosed)
                 /\ Block(out')[1] \in {"<h1>", "<h3>"}
                 /\ \A k \in 1..Len(Block(out')) :
                        Block(out')[k] \notin {"<h2 id=\"", "<a href=\"#"}]_vars

\* the heading "## A b" has been written with the id and the fragment a-b
C21_Witness ==
    /\ ppc = "loop"
    /\ li = 2
    /\ lines[1] = <<"#", "#", " ", "A", " ", "b">>
    /\ SubSeq(out, 1, 9) = <<"<h2 id=\"", "a", "-", "b", "\">", "<a href=\"#", "a", "-", "b">>

----------------------------------------------------------------------------
(* Properties of the order of the passes of formatInline. *)

\* the positions of formatInline in the order of its assignments
PassOrder == <<"escape", "image", "link", "code", "bold", "strike", "italic", "done">>

\* the number of passes that have run
PassesDone == (CHOOSE k \in DOMAIN PassOrder : PassOrder[k] = ipc) - 1

BoldSpan == <<"*", "*", "a", "*", "*">>

ImageSpan == <<"!", "[", "a", "]", "(", "a", ")">>

\* a text, not empty, without a character the rules of formatInline look for
Plain(x) ==
    /\ x # <<>>
    /\ \A j \in 1..Len(x) : x[j] \notin {"*", "~", BT, "!", "[", "]", "(", ")"}

\* s is "**x**" for a plain text x
IsBoldSpan(s) ==
    /\ Len(s) >= 5
    /\ SubSeq(s, 1, 2) = <<"*", "*">>
    /\ SubSeq(s, Len(s) - 1, Len(s)) = <<"*", "*">>
    /\ Plain(SubSeq(s, 3, Len(s) - 2))

\* s is "![a](u)" for plain texts a and u
IsImageSpan(s) ==
    /\ Len(s) >= 7
    /\ s[1] = "!" /\ s[2] = "[" /\ s[Len(s)] = ")"
    /\ \E c \in 4..(Len(s) - 3) :
           /\ s[c] = "]" /\ s[c + 1] = "("
           /\ Plain(SubSeq(s, 3, c - 1))
           /\ Plain(SubSeq(s, c + 2, Len(s) - 1))

\* C22: the passes run in the order escape, image, link, inline code, bold,
\* strikethrough, italic, each on the text the pass before has left.  So the
\* tags of a pass appear only once the passes before it have run; "**x**",
\* x a plain text, is from the bold pass on one strong element, with no
\* asterisk left for the italic pass and no em element; "![a](u)", a and u
\* plain texts, is from the image pass on one figure, with no "!" and no
\* bracket left for the link pass and no anchor.
C22_FixedPassOrder ==
    /\ PassesDone < 2 => \A j \in 1..Len(text) : text[j] # "<figure>"
    /\ PassesDone < 3 => \A j \in 1..Len(text) : text[j] # "<a href=\""
    /\ PassesDone < 4 => \A j \in 1..Len(text) : text[j] # "<code>"
    /\ PassesDone < 5 => \A j \in 1..Len(text) : text[j] # "<strong>"
    /\ PassesDone < 6 => \A j \in 1..Len(text) : text[j] # "<del>"
    /\ PassesDone < 7 => \A j \in 1..Len(text) : text[j] # "<em>"
    /\ (IsBoldSpan(itext) /\ PassesDone >= 5) =>
           /\ text[1] = "<strong>" /\ text[Len(text)] = "</strong>"
           /\ Occurrences(text, "<strong>") = 1
           /\ \A j \in 1..Len(text) : text[j] \notin {"*", "<em>"}
    /\ (itext = BoldSpan /\ PassesDone >= 5) => text = <<"<strong>", "a", "</strong>">>
    /\ (IsImageSpan(itext) /\ PassesDone >= 2) =>
           /\ text[1] = "<figure>" /\ text[Len(text)] = "</figure>"
           /\ Occurrences(text, "<figure>") = 1
           /\ \A j \in 1..Len(text) : text[j] \notin {"!", "[", "<a href=\""}
    /\ (itext = ImageSpan /\ PassesDone >= 2) =>
           text = <<"<figure>", "<img src=\"", "a", "\" alt=\"", "a", "\">",
                    "<figcaption>", "a", "</figcaption>", "</figure>">>

\* formatInline has returned one strong element for "**a**"
C22_Witness ==
    /\ ipc = "done"
    /\ itext = BoldSpan
    /\ text = <<"<strong>", "a", "</strong>">>

----------------------------------------------------------------------------
(* Properties of loadPosts on articles that cannot be read. *)

\* C23: an article that passed the checks of its name and cannot be read is
\* skipped: no post of the collection has the slug of an unreadable entry.
C23_UnreadableSkipped ==
    \A j \in 1..Len(posts), k \in 1..Len(files) :
        posts[j].Slug = TrimSuffix(files[k].name, MdSuffix) => files[k].readable

----------------------------------------------------------------------------
(* Properties of lists and code blocks together. *)

\* C24: a list and a code block are never open at the same time: a fence
\* that opens a code block behind a list item closes the list first.
C24_ListAndCodeExclusive == ~(inList /\ inCode)

\* the tag that opens the block the tag c closes
OpenerOf(c) ==
    IF c = "</ul>" THEN "<ul>" ELSE "<div class=\"code-block-wrapper\">"

\* the tags of s from position k on close the blocks of stack, and those
\* they open themselves, the block opened last first
RECURSIVE Nested(_, _, _)
Nested(s, k, stack) ==
    IF k > Len(s) THEN stack = <<>>
    ELSE IF s[k] \in {"<ul>", "<div class=\"code-block-wrapper\">"}
         THEN Nested(s, k + 1, <<s[k]>> \o stack)
    ELSE IF s[k] \in {"</ul>", "</div>"}
         THEN /\ stack # <<>>
              /\ Head(stack) = OpenerOf(s[k])
              /\ Nested(s, k + 1, Tail(stack))
    ELSE Nested(s, k + 1, stack)

\* C25: in what parseMarkdown returns, the close tags of lists and code
\* blocks come in the reverse order of their opens: a block opened later is
\* closed before a block opened earlier, also by the cleanup at the end.
C25_ProperNesting == ppc = "done" => Nested(out, 1, <<>>)

----------------------------------------------------------------------------
(* Properties of the language of a code block. *)

\* C26: the language written into the class attribute of a code element
\* holds no double quote, < or > as it stands: between the opening of the
\* attribute and the piece that closes it, the output has none of them.
C26_LanguageIsInert ==
    \A k \in 1..Len(out) :
        out[k] = "<code class=\"language-" =>
            /\ FirstFrom(out, k + 1, "\">") # 0
            /\ \A j \in (k + 1)..(FirstFrom(out, k + 1, "\">") - 1) :
                   out[j] \notin {"\"", "<", ">"}

----------------------------------------------------------------------------
(* Properties of the paths a build writes to. *)

\* public itself, or a path below it
UnderPublic(p) ==
    \/ p = [dir |-> ".", file |-> <<"public">>]
    \/ p.dir \in {"public", "public/articles"}

\* C27: every path a build has created or written to is public or lies
\* below it, and none is a watched path or an entry of the watched
\* directory; so no step of a build adds an event to those the watcher holds.
C27_WritesOnlyUnderPublic ==
    /\ [](\A p \in written : UnderPublic(p) /\ ~Watched(p))
    /\ [][(bpc # "idle" /\ bpc' # bpc) => pending' = pending]_vars

\* a rebuild has written the page of a post while the watcher was open, and
\* the loop waits with no event to receive
C27_Witness ==
    /\ mpc = "select"
    /\ chanOpen
    /\ completed >= 2
    /\ pending = 0
    /\ budget = 0
    /\ \E p \in written : p.dir = "public/articles"
    /\ PublicPath("index.html") \in written

====
